---- MODULE Spec2Model ----
(***************************************************************************)
(* Yellowstone gRPC client (src/python/main.py): the reconnection          *)
(* supervisor run_with_reconnect, one stream session SubscriptionManager.run*)
(* with its outbound request_iterator and ping queue, the message          *)
(* dispatcher, the transport handle of GrpcClient and the shutdown event.   *)
(*                                                                         *)
(* The coroutine is suspended at four places, which are the values of pc:  *)
(*   "session"  async for update in stream            (line 237)           *)
(*   "sleep1"   await asyncio.sleep(1)                (line 308)           *)
(*   "backoff"  the sleep of backoff.on_exception     (line 275)           *)
(*   "attempt"  top of the retry loop, about to call connect_and_subscribe *)
(* and it has ended in "returned" (run_with_reconnect returned) or         *)
(* "raised" (an exception left run_with_reconnect).  Before that, main is  *)
(* at "start" (about to build Config) and a configuration error ends it in *)
(* "exit1" (sys.exit(1)).                                                  *)
(***************************************************************************)
EXTENDS Integers, Sequences, FiniteSets, TLC

\* ---- bounds of the model ----
MaxTries == 2
MaxPings == 2
MaxPingId == 2
MaxEndpointLen == 4

PingIds == 1..MaxPingId

\* request_iterator holds no id
NoPingId == 0

\* ---- the tagged union of inbound updates (WhichOneof('update_oneof')) ----
\* "None" is the absent variant, "unknown" any variant name the code does not list.
Variants == {"slot", "account", "transaction", "block", "ping", "pong", "None", "unknown"}

\* exceptions the stream iteration can raise into run()
ErrorKinds == {"RpcError", "CancelledError", "Exception"}

VARIABLES
    env_endpoint, \* GEYSER_ENDPOINT in the environment: [set, value]
    dotenv_file,  \* GEYSER_ENDPOINT in the .env file load_dotenv finds: [set, value]
    endpoint,     \* config.endpoint (empty until Config is built)
    leaked,       \* request_iterators of earlier attempts that still poll
    shutdown,     \* shutdown_event.is_set()
    pc,           \* where run_with_reconnect is suspended
    tries,        \* backoff: tries counter of the retry loop
    expoN,        \* backoff: number of values drawn from the expo generator
    delays,       \* the waits passed to on_backoff, in order (details['wait'])
    timer,        \* duration of the sleep in progress (0 when not sleeping)
    channel,      \* client.channel of the attempt's GrpcClient: none/open/closed
    closeCalls,   \* calls of channel.close() on the attempt's channel
    openHandles,  \* number of channels open in the process
    ping_queue,   \* SubscriptionManager.ping_queue
    pump_ping_id,      \* request_iterator: the id taken from the queue and not yet yielded
    pumpPc,       \* position of request_iterator: init/check/wait/got/expired/done/failed
    outbound,     \* items yielded by request_iterator on the current stream
    pingsRecv,    \* ids of the pings received on the current stream, in order
    lastHandled,  \* variant last passed to handle_message in this session
    endCause,     \* what ended the inbound loop of the last session
    runResult     \* outcome of the last SubscriptionManager.run call

vars == <<env_endpoint, dotenv_file, endpoint, leaked, shutdown, pc, tries, expoN, delays, timer, channel, closeCalls,
          openHandles, ping_queue, pump_ping_id, pumpPc, outbound, pingsRecv,
          lastHandled, endCause, runResult>>

backoffVars == <<tries, expoN, delays>>
sessionVars == <<ping_queue, pump_ping_id, pumpPc, outbound, pingsRecv, lastHandled>>
handleVars == <<channel, closeCalls, openHandles>>
configVars == <<env_endpoint, dotenv_file, endpoint>>

\* ---- pure helpers ----

RECURSIVE Pow(_, _)
Pow(b, n) == IF n = 0 THEN 1 ELSE b * Pow(b, n - 1)

\* backoff.expo with its defaults: base 2, factor 1, no max_value
expo_base == 2
expo_factor == 1
expo(n) == expo_factor * Pow(expo_base, n)

\* on_exception's default jitter, full_jitter: random.uniform(0, value).
\* The outcomes are taken at whole seconds.
full_jitter(value) == 0..value

\* max_tries=None, max_time=None
max_tries == "None"
\* mutation: max_tries=2 given to the decorator
max_tries_exceeded_Two(t) == t = 2

max_tries_exceeded(t) == max_tries # "None" /\ t = max_tries

\* `except Exception` of the retry loop: CancelledError is a BaseException
CaughtByBackoff(kind) == kind \in {"RpcError", "Exception"}

\* the branches of handle_message that read fields of the update (lines
\* 78-82, 87-92, 97-101, 106-109, 118); the ping branch, the branch of the
\* absent variant and the final else read none
ReadsFields(update_type) ==
    update_type \in {"slot", "account", "transaction", "block", "pong"}

\* mutation: the absent variant reports continue like the others
handle_message_NoStop(update_type, readable) == TRUE

\* MessageHandler.handle_message: True to continue, False to break.
\* `readable` tells whether the field reads of the branch succeed: a read
\* that raises (block.blockhash.hex() on a blockhash that is a str, a missing
\* attribute) is caught by the except clause of lines 129-131, which logs
\* the error and returns False.
handle_message(update_type, readable) ==
    IF ReadsFields(update_type) /\ ~readable THEN FALSE
    ELSE IF update_type = "slot" THEN TRUE
    ELSE IF update_type = "account" THEN TRUE
    ELSE IF update_type = "transaction" THEN TRUE
    ELSE IF update_type = "block" THEN TRUE
    ELSE IF update_type = "ping" THEN TRUE
    ELSE IF update_type = "pong" THEN TRUE
    ELSE IF update_type = "None" THEN FALSE
    ELSE TRUE

\* mutation: the except clauses re-raise whatever the shutdown event says
RunExcept_AlwaysRaise(kind, flag) == kind

\* The except clauses of SubscriptionManager.run: the outcome of run when the
\* stream raises `kind` with the shutdown event in state `flag`.
RunExcept(kind, flag) == IF flag THEN "returned" ELSE kind

\* ---- Config (lines 36-51) ----

\* the characters an endpoint is made of: a host character, the colon, a digit
Chars == {"h", ":", "4"}
EndpointStrings == UNION {[1..n -> Chars] : n \in 0..MaxEndpointLen}

\* the environment with GEYSER_ENDPOINT unset, or set to a string
EnvUnset == [set |-> FALSE, value |-> <<>>]
EnvSet(str) == [set |-> TRUE, value |-> str]

\* line 40: the default 'grpc.solanavibestation.com:443'
DefaultEndpoint == <<"h", ":", "4", "4", "3">>

\* line 49: ':443'
PortSuffix == <<":", "4", "4", "3">>

\* line 39: load_dotenv() with its defaults (override=False) puts the
\* variables of the .env file into the environment, except those the
\* environment already defines
load_dotenv(env, file) == IF ~env.set /\ file.set THEN EnvSet(file.value) ELSE env

\* os.getenv(name, default)
getenv(env, default) == IF env.set THEN env.value ELSE default

Contains(str, c) == \E i \in 1..Len(str) : str[i] = c

\* lines 48-49: if ':' not in self.endpoint: self.endpoint += ':443'
EffectiveEndpoint(ep) == IF ~Contains(ep, ":") THEN ep \o PortSuffix ELSE ep

\* lines 44-45: if not self.endpoint: raise ValueError
ConfigInvalid(ep) == ep = <<>>

\* the exit status of the process at each end of main: 1 after a
\* configuration error or an exception out of run_with_reconnect (lines
\* 348-350), 0 after run_with_reconnect returned, -1 while running
ExitStatus(p) ==
    IF p \in {"exit1", "raised"} THEN 1
    ELSE IF p = "returned" THEN 0
    ELSE -1

TypeOK ==
    /\ env_endpoint \in [set : BOOLEAN, value : EndpointStrings]
    /\ dotenv_file \in [set : BOOLEAN, value : EndpointStrings]
    /\ endpoint \in Seq(Chars \cup {"3"})
    /\ leaked \in 0..MaxTries
    /\ shutdown \in BOOLEAN
    /\ pc \in {"start", "exit1", "attempt", "session", "sleep1", "backoff", "returned", "raised"}
    /\ tries \in 1..(MaxTries + 1)
    /\ expoN \in 0..MaxTries
    /\ delays \in Seq(Nat)
    /\ timer \in Nat
    /\ channel \in {"none", "open", "closed"}
    /\ closeCalls \in Nat
    /\ openHandles \in Nat
    /\ ping_queue \in Seq(PingIds)
    /\ pump_ping_id \in PingIds \cup {NoPingId}
    /\ pumpPc \in {"init", "check", "wait", "got", "expired", "done", "failed"}
    /\ pingsRecv \in Seq(PingIds)
    /\ lastHandled \in Variants \cup {"-"}
    /\ endCause \in {"-", "shutdown", "stop", "eof"} \cup ErrorKinds
    /\ runResult \in {"-", "returned"} \cup ErrorKinds

\* the state of main before Config is built, for a given environment and
\* a given .env file
InitWith(env, file) ==
    /\ env_endpoint = env
    /\ dotenv_file = file
    /\ endpoint = <<>>
    /\ leaked = 0
    /\ shutdown = FALSE
    /\ pc = "start"
    /\ tries = 1
    /\ expoN = 0
    /\ delays = <<>>
    /\ timer = 0
    /\ channel = "none"
    /\ closeCalls = 0
    /\ openHandles = 0
    /\ ping_queue = <<>>
    /\ pump_ping_id = NoPingId
    /\ pumpPc = "done"
    /\ outbound = <<>>
    /\ pingsRecv = <<>>
    /\ lastHandled = "-"
    /\ endCause = "-"
    /\ runResult = "-"

\* main started with GEYSER_ENDPOINT unset or set to the empty string, in
\* the environment and in the .env file
Init == \E env, file \in {EnvUnset, EnvSet(<<>>)} : InitWith(env, file)

\* main started with GEYSER_ENDPOINT unset or set to any bounded string, in
\* the environment and in the .env file
EnvChoices == {EnvUnset} \cup {EnvSet(str) : str \in EndpointStrings}
ConfigInit == \E env, file \in EnvChoices : InitWith(env, file)

\* ---- fragments shared by the actions ----

\* GrpcClient.close on a client whose channel is `ch` and has been closed
\* `calls` times, `handles` channels being open in the process:
\* `if self.channel: await self.channel.close()`
ClientCloseFrom(ch, calls, handles) ==
    /\ channel' = IF ch # "none" THEN "closed" ELSE ch
    /\ closeCalls' = IF ch # "none" THEN calls + 1 ELSE calls
    /\ openHandles' = IF ch = "open" THEN handles - 1 ELSE handles

\* mutation: connect_and_subscribe without its finally block
ClientClose_Missing == UNCHANGED handleVars

\* the finally block of connect_and_subscribe, on the attempt's client
ClientClose == ClientCloseFrom(channel, closeCalls, openHandles)

\* What the retry loop and run_with_reconnect do with an exception `kind`
\* raised by connect_and_subscribe.
OnException(kind) ==
    IF ~CaughtByBackoff(kind)
    THEN \* not an Exception: leaves the retry loop; run_with_reconnect
         \* catches asyncio.CancelledError and returns
         /\ pc' = IF kind = "CancelledError" THEN "returned" ELSE "raised"
         /\ timer' = 0
         /\ UNCHANGED backoffVars
    ELSE IF max_tries_exceeded(tries)
    THEN /\ pc' = "raised"
         /\ timer' = 0
         /\ UNCHANGED backoffVars
    ELSE \E seconds \in full_jitter(expo(expoN)) :
         /\ pc' = "backoff"
         /\ timer' = seconds
         /\ expoN' = expoN + 1
         /\ delays' = Append(delays, seconds)
         /\ UNCHANGED tries

\* connect_and_subscribe returns None: the retry loop returns it
OnReturn ==
    /\ pc' = "returned"
    /\ timer' = 0
    /\ UNCHANGED backoffVars

\* line 308: await asyncio.sleep(1)
ReconnectDelay == 1

\* mutation: connect_and_subscribe returns after run() whatever the event
AfterRun_ReturnOnCleanClose == ClientClose /\ OnReturn

\* Lines 300-308 after run() returned normally
AfterRun ==
    IF shutdown
    THEN ClientClose /\ OnReturn
    ELSE /\ pc' = "sleep1"
         /\ timer' = ReconnectDelay
         /\ UNCHANGED backoffVars
         /\ UNCHANGED handleVars

\* line 190: asyncio.Queue() has maxsize 0, which means no limit
ping_queue_maxsize == 0

\* Queue.full(): a put on a full queue suspends the caller
QueueFull(q) == ping_queue_maxsize > 0 /\ Len(q) >= ping_queue_maxsize

\* an outbound item: the subscription request, or a pong carrying an id
SubscribeItem == [kind |-> "subscribe", id |-> 0]
PongItem(ping_id) == [kind |-> "pong", id |-> ping_id]

\* the RPC of the last session has finished with a status from the server:
\* the stream was exhausted or raised grpc.RpcError
CallDone == pc # "session" /\ endCause \in {"eof", "RpcError"}

\* The request_iterator is consumed by a task of the RPC. The task runs
\* during the session and, after a dispatcher stop, until the channel is
\* closed: closing the channel cancels the RPCs that are not finished, and
\* their tasks with them. An RPC that has finished is not cancelled any
\* more, so its task keeps iterating until the iterator ends or a write on
\* the finished RPC fails.
PumpAlive ==
    \/ pc = "session"
    \/ pc = "sleep1" /\ endCause = "stop"
    \/ CallDone

\* it is idle in its loop of timed waits on an empty queue
PumpPolling ==
    PumpAlive /\ pumpPc \in {"check", "wait", "expired"} /\ ping_queue = <<>>

\* position of the iterator after a yield: the consuming task writes the
\* item on the RPC and comes back for the next one; a write on an RPC that
\* has finished or was cancelled fails and ends the consuming task
AfterYield == IF PumpAlive /\ ~CallDone THEN "check" ELSE "done"

\* stub.Subscribe (line 234) creates the consuming task before run()
\* suspends at line 237, so the task's first step, which advances the
\* iterator to `yield request` (line 206), is in the event loop's queue
\* ahead of every callback for a message, an end or an error of the new
\* stream: the inbound loop sees nothing before the request was yielded
StreamStarted == pumpPc # "init"

\* the iterators left polling once the attempt's manager is replaced
LeakedAfterAttempt == IF PumpPolling THEN leaked + 1 ELSE leaked

\* ---- the supervisor: run_with_reconnect / connect_and_subscribe ----

\* mutation: Config without the check of lines 44-45
LoadConfig_NoValidation ==
    /\ pc = "start"
    /\ env_endpoint' = load_dotenv(env_endpoint, dotenv_file)
    /\ endpoint' = EffectiveEndpoint(getenv(env_endpoint', DefaultEndpoint))
    /\ pc' = "attempt"
    /\ UNCHANGED <<dotenv_file, leaked, shutdown, backoffVars, timer, handleVars,
                   sessionVars, endCause, runResult>>

\* main, lines 333-350: Config() is built: load_dotenv() fills the
\* environment from the .env file, then the endpoint is read from the
\* environment; an empty endpoint raises ValueError, which main logs and
\* turns into sys.exit(1); otherwise the signal handlers are installed and
\* run_with_reconnect is entered
LoadConfig ==
    /\ pc = "start"
    /\ env_endpoint' = load_dotenv(env_endpoint, dotenv_file)
    /\ LET ep == getenv(env_endpoint', DefaultEndpoint)
       IN  IF ConfigInvalid(ep)
           THEN /\ pc' = "exit1"
                /\ endpoint' = ep
           ELSE /\ pc' = "attempt"
                /\ endpoint' = EffectiveEndpoint(ep)
    /\ UNCHANGED <<dotenv_file, leaked, shutdown, backoffVars, timer, handleVars,
                   sessionVars, endCause, runResult>>

\* line 287: the shutdown event is set at the entry of an attempt
AttemptShutdown ==
    /\ pc = "attempt"
    /\ shutdown
    /\ OnReturn
    /\ UNCHANGED <<shutdown, handleVars, sessionVars, endCause, runResult>>
    /\ UNCHANGED <<configVars, leaked>>

\* mutation: a successful connect restarts the retry loop's counters
ConnectOk_ResetBackoff ==
    /\ pc = "attempt"
    /\ ~shutdown
    /\ tries <= MaxTries
    /\ channel' = "open"
    /\ closeCalls' = 0
    /\ openHandles' = openHandles + 1
    /\ ping_queue' = <<>>
    /\ pump_ping_id' = NoPingId
    /\ pumpPc' = "init"
    /\ outbound' = <<>>
    /\ pingsRecv' = <<>>
    /\ lastHandled' = "-"
    /\ endCause' = "-"
    /\ runResult' = "-"
    /\ pc' = "session"
    /\ timer' = 0
    /\ tries' = 1
    /\ expoN' = 0
    /\ delays' = <<>>
    /\ UNCHANGED shutdown
    /\ leaked' = LeakedAfterAttempt
    /\ UNCHANGED configVars

\* mutation: one SubscriptionManager, and so one ping queue, for all attempts
ConnectOk_SharedQueue ==
    /\ pc = "attempt"
    /\ ~shutdown
    /\ tries <= MaxTries
    /\ channel' = "open"
    /\ closeCalls' = 0
    /\ openHandles' = openHandles + 1
    /\ ping_queue' = ping_queue
    /\ pump_ping_id' = NoPingId
    /\ pumpPc' = "init"
    /\ outbound' = <<>>
    /\ pingsRecv' = <<>>
    /\ lastHandled' = "-"
    /\ endCause' = "-"
    /\ runResult' = "-"
    /\ pc' = "session"
    /\ timer' = 0
    /\ UNCHANGED <<shutdown, backoffVars>>
    /\ leaked' = LeakedAfterAttempt
    /\ UNCHANGED configVars

\* lines 290-298: a fresh client and manager, connect succeeds, run() opens
\* the stream and suspends on its first inbound message. The session
\* variables describe the new stream from here on: an iterator of the
\* earlier stream that still holds an id yields its pong to that earlier
\* stream's consumer, whose RPC is over, and is not followed any further.
ConnectOk ==
    /\ pc = "attempt"
    /\ ~shutdown
    /\ tries <= MaxTries
    /\ channel' = "open"
    /\ closeCalls' = 0
    /\ openHandles' = openHandles + 1
    /\ ping_queue' = <<>>
    /\ pump_ping_id' = NoPingId
    /\ pumpPc' = "init"
    /\ outbound' = <<>>
    /\ pingsRecv' = <<>>
    /\ lastHandled' = "-"
    /\ endCause' = "-"
    /\ runResult' = "-"
    /\ pc' = "session"
    /\ timer' = 0
    /\ UNCHANGED <<shutdown, backoffVars>>
    /\ leaked' = LeakedAfterAttempt
    /\ UNCHANGED configVars

\* lines 290-295 and 313-315: connect raises, either before a channel exists
\* (lines 147-156) or after self.channel was assigned (line 172); run() is
\* not called; the finally block closes the client, which closes the
\* channel if there is one; the retry loop backs off
ConnectFail ==
    /\ pc = "attempt"
    /\ ~shutdown
    /\ tries <= MaxTries
    /\ \E created \in BOOLEAN :
        IF created
        THEN ClientCloseFrom("open", 0, openHandles + 1)
        ELSE ClientCloseFrom("none", 0, openHandles)
    /\ ping_queue' = <<>>
    /\ pump_ping_id' = NoPingId
    /\ pumpPc' = "done"
    /\ outbound' = <<>>
    /\ pingsRecv' = <<>>
    /\ lastHandled' = "-"
    /\ endCause' = "-"
    /\ runResult' = "-"
    /\ OnException("Exception")
    /\ UNCHANGED shutdown
    /\ leaked' = LeakedAfterAttempt
    /\ UNCHANGED configVars

\* line 308 done, line 311 raises, finally closes, the retry loop backs off
Sleep1Done ==
    /\ pc = "sleep1"
    /\ ClientClose
    /\ OnException("Exception")
    /\ UNCHANGED <<shutdown, sessionVars, endCause, runResult>>
    /\ UNCHANGED <<configVars, leaked>>

\* the sleep of the retry loop is over: tries += 1 and the target is called
BackoffDone ==
    /\ pc = "backoff"
    /\ pc' = "attempt"
    /\ tries' = tries + 1
    /\ timer' = 0
    /\ UNCHANGED <<shutdown, expoN, delays, handleVars, sessionVars, endCause, runResult>>
    /\ UNCHANGED <<configVars, leaked>>

\* ---- the inbound loop of SubscriptionManager.run (lines 237-269) ----

\* lines 238-239: a message arrives while the shutdown event is set
RecvWhileShutdown ==
    /\ pc = "session"
    /\ StreamStarted
    /\ shutdown
    /\ \E v \in Variants :
        /\ endCause' = "shutdown"
        /\ runResult' = "returned"
        /\ AfterRun
    /\ UNCHANGED <<shutdown, sessionVars>>
    /\ UNCHANGED <<configVars, leaked>>

\* mutation: the inbound loop without the check of lines 238-239
RecvPing_IgnoreShutdown ==
    /\ pc = "session"
    /\ StreamStarted
    /\ Len(pingsRecv) < MaxPings
    /\ ~QueueFull(ping_queue)
    /\ \E ping_id \in PingIds :
        /\ ping_queue' = Append(ping_queue, ping_id)
        /\ pingsRecv' = Append(pingsRecv, ping_id)
    /\ UNCHANGED <<shutdown, pc, backoffVars, timer, handleVars, pump_ping_id, pumpPc,
                   outbound, lastHandled, endCause, runResult>>
    /\ UNCHANGED <<configVars, leaked>>

\* lines 242-249: a ping is queued and the loop continues
RecvPing ==
    /\ pc = "session"
    /\ StreamStarted
    /\ ~shutdown
    /\ Len(pingsRecv) < MaxPings
    /\ ~QueueFull(ping_queue)
    /\ \E ping_id \in PingIds :
        /\ ping_queue' = Append(ping_queue, ping_id)
        /\ pingsRecv' = Append(pingsRecv, ping_id)
    /\ UNCHANGED <<shutdown, pc, backoffVars, timer, handleVars, pump_ping_id, pumpPc,
                   outbound, lastHandled, endCause, runResult>>
    /\ UNCHANGED <<configVars, leaked>>

\* mutation: the ping branch without its `continue`
RecvUpdate_WithPing ==
    /\ pc = "session"
    /\ StreamStarted
    /\ ~shutdown
    /\ \E v \in Variants, readable \in BOOLEAN :
        /\ lastHandled' = v
        /\ IF handle_message(v, readable)
           THEN UNCHANGED <<pc, backoffVars, timer, handleVars, endCause, runResult>>
           ELSE /\ endCause' = "stop"
                /\ runResult' = "returned"
                /\ AfterRun
    /\ UNCHANGED <<shutdown, ping_queue, pump_ping_id, pumpPc, outbound, pingsRecv>>
    /\ UNCHANGED <<configVars, leaked>>

\* lines 252-254: any other message goes to the dispatcher
RecvUpdate ==
    /\ pc = "session"
    /\ StreamStarted
    /\ ~shutdown
    /\ \E v \in Variants \ {"ping"}, readable \in BOOLEAN :
        /\ lastHandled' = v
        /\ IF handle_message(v, readable)
           THEN UNCHANGED <<pc, backoffVars, timer, handleVars, endCause, runResult>>
           ELSE /\ endCause' = "stop"
                /\ runResult' = "returned"
                /\ AfterRun
    /\ UNCHANGED <<shutdown, ping_queue, pump_ping_id, pumpPc, outbound, pingsRecv>>
    /\ UNCHANGED <<configVars, leaked>>

\* the stream is exhausted: the server closed it without error
ServerClose ==
    /\ pc = "session"
    /\ StreamStarted
    /\ endCause' = "eof"
    /\ runResult' = "returned"
    /\ AfterRun
    /\ UNCHANGED <<shutdown, sessionVars>>
    /\ UNCHANGED <<configVars, leaked>>

\* lines 256-267: the stream iteration raises
StreamError ==
    /\ pc = "session"
    /\ StreamStarted
    /\ \E kind \in ErrorKinds :
        /\ endCause' = kind
        /\ runResult' = RunExcept(kind, shutdown)
        /\ IF RunExcept(kind, shutdown) = "returned"
           THEN AfterRun
           ELSE ClientClose /\ OnException(kind)
    /\ UNCHANGED <<shutdown, sessionVars>>
    /\ UNCHANGED <<configVars, leaked>>

\* ---- request_iterator (lines 204-228) ----

\* line 206: the subscription request
PumpSubscribe ==
    /\ PumpAlive
    /\ pumpPc = "init"
    /\ outbound' = Append(outbound, SubscribeItem)
    /\ pumpPc' = AfterYield
    /\ UNCHANGED <<shutdown, pc, backoffVars, timer, handleVars, ping_queue,
                   pump_ping_id, pingsRecv, lastHandled, endCause, runResult>>
    /\ UNCHANGED <<configVars, leaked>>

\* line 209: while not self.shutdown_event.is_set()
PumpCheck ==
    /\ PumpAlive
    /\ pumpPc = "check"
    /\ pumpPc' = IF shutdown THEN "done" ELSE "wait"
    /\ UNCHANGED <<shutdown, pc, backoffVars, timer, handleVars, ping_queue,
                   pump_ping_id, outbound, pingsRecv, lastHandled, endCause, runResult>>
    /\ UNCHANGED <<configVars, leaked>>

\* lines 212-215: queue.get() completes in the task wait_for runs it in: the
\* oldest id leaves the queue. The iterator itself resumes only in a later
\* iteration of the event loop; until then the id is in neither the queue
\* nor a pong, and the inbound loop and the signal handler can run.
\* That task is not the consuming task: closing the channel cancels the
\* consuming task only, and the step of queue.get() that a non-empty queue
\* has already scheduled still runs and takes the id.
PumpGet ==
    /\ pumpPc = "wait"
    /\ ping_queue # <<>>
    /\ pump_ping_id' = Head(ping_queue)
    /\ ping_queue' = Tail(ping_queue)
    /\ pumpPc' = "got"
    /\ UNCHANGED <<shutdown, pc, backoffVars, timer, handleVars, outbound,
                   pingsRecv, lastHandled, endCause, runResult>>
    /\ UNCHANGED <<configVars, leaked>>

\* lines 212 and 218-228: wait_for returns the id and the pong is built and
\* yielded; the shutdown event is not looked at in between. This step is
\* taken even when the channel was closed meanwhile: wait_for (Python 3.11)
\* answers a cancellation that finds queue.get() completed by returning the
\* id, so the cancellation of the consuming task is lost, the pong is yielded
\* and the task ends on its write to the cancelled RPC. `buildable`
\* tells whether building the pong succeeds: when it raises (the message
\* class rejects the id at line 220), the except clause of lines 226-228
\* logs the error and leaves the loop: the iterator ends, the id is dropped
\* and no pong is yielded, while the inbound loop goes on.
PumpYield ==
    /\ pumpPc = "got"
    /\ \E buildable \in BOOLEAN :
        IF buildable
        THEN /\ outbound' = Append(outbound, PongItem(pump_ping_id))
             /\ pumpPc' = AfterYield
        ELSE /\ outbound' = outbound
             /\ pumpPc' = "failed"
    /\ pump_ping_id' = NoPingId
    /\ UNCHANGED <<shutdown, pc, backoffVars, timer, handleVars, ping_queue,
                   pingsRecv, lastHandled, endCause, runResult>>
    /\ UNCHANGED <<configVars, leaked>>

\* lines 212-215: the timeout of wait_for fires on an empty queue; wait_for
\* resumes in a later iteration of the event loop, and a ping put on the
\* queue in between stays there
PumpTimeout ==
    /\ PumpAlive
    /\ pumpPc = "wait"
    /\ ping_queue = <<>>
    /\ pumpPc' = "expired"
    /\ UNCHANGED <<shutdown, pc, backoffVars, timer, handleVars, ping_queue,
                   pump_ping_id, outbound, pingsRecv, lastHandled, endCause, runResult>>
    /\ UNCHANGED <<configVars, leaked>>

\* mutation: the subscription request is yielded again on every timeout
PumpExpired_Resubscribe ==
    /\ PumpAlive
    /\ pumpPc = "expired"
    /\ pumpPc' = "check"
    /\ outbound' = Append(outbound, SubscribeItem)
    /\ UNCHANGED <<shutdown, pc, backoffVars, timer, handleVars, ping_queue,
                   pump_ping_id, pingsRecv, lastHandled, endCause, runResult>>
    /\ UNCHANGED <<configVars, leaked>>

\* lines 224-225: wait_for raises TimeoutError and the loop continues
PumpExpired ==
    /\ PumpAlive
    /\ pumpPc = "expired"
    /\ pumpPc' = "check"
    /\ UNCHANGED <<shutdown, pc, backoffVars, timer, handleVars, ping_queue,
                   pump_ping_id, outbound, pingsRecv, lastHandled, endCause, runResult>>
    /\ UNCHANGED <<configVars, leaked>>

\* line 209 in an iterator left over from an earlier attempt: it sees the
\* shutdown event and ends
LeakedPumpExit ==
    /\ leaked > 0
    /\ shutdown
    /\ leaked' = leaked - 1
    /\ UNCHANGED <<configVars, shutdown, pc, backoffVars, timer, handleVars,
                   sessionVars, endCause, runResult>>

\* ---- signal_handler (lines 329-331) ----

\* mutation: the handler flips the event instead of setting it
Signal_Toggle ==
    /\ pc \in {"session", "sleep1", "backoff"}
    /\ shutdown' = ~shutdown
    /\ UNCHANGED <<pc, backoffVars, timer, handleVars, sessionVars, endCause, runResult>>
    /\ UNCHANGED <<configVars, leaked>>

\* Handlers run when the event loop has control, that is while the coroutine
\* is suspended.
Signal ==
    /\ pc \in {"session", "sleep1", "backoff"}
    /\ shutdown' = TRUE
    /\ UNCHANGED <<pc, backoffVars, timer, handleVars, sessionVars, endCause, runResult>>
    /\ UNCHANGED <<configVars, leaked>>

Next ==
    \/ LoadConfig
    \/ AttemptShutdown
    \/ ConnectOk
    \/ ConnectFail
    \/ Sleep1Done
    \/ BackoffDone
    \/ RecvWhileShutdown
    \/ RecvPing
    \/ RecvUpdate
    \/ ServerClose
    \/ StreamError
    \/ PumpSubscribe
    \/ PumpCheck
    \/ PumpGet
    \/ PumpYield
    \/ PumpTimeout
    \/ PumpExpired
    \/ LeakedPumpExit
    \/ Signal

Spec == Init /\ [][Next]_vars

\* Config alone, over every bounded value of GEYSER_ENDPOINT
ConfigSpec == ConfigInit /\ [][LoadConfig]_vars

\* The event loop runs every ready coroutine and fires every timer; what the
\* server and the operator do is not forced.
FairSpec ==
    /\ Spec
    /\ WF_vars(LoadConfig)
    /\ WF_vars(AttemptShutdown)
    /\ WF_vars(ConnectOk \/ ConnectFail)
    /\ WF_vars(Sleep1Done)
    /\ WF_vars(BackoffDone)
    /\ WF_vars(PumpSubscribe)
    /\ WF_vars(PumpCheck)
    /\ WF_vars(PumpGet)
    /\ WF_vars(PumpYield)
    /\ WF_vars(PumpTimeout)
    /\ WF_vars(PumpExpired)
    /\ WF_vars(LeakedPumpExit)

\* ---- observations used by the properties ----

\* the ids of the pongs emitted on the current stream, in order
PongIds ==
    LET pongs == SelectSeq(outbound, LAMBDA item : item.kind = "pong")
    IN  [i \in 1..Len(pongs) |-> pongs[i].id]

IsPrefix(s, t) == Len(s) <= Len(t) /\ SubSeq(t, 1, Len(s)) = s

\* the endpoint Config reads: the environment's value, else the .env
\* file's, else the default
ConfiguredEndpoint == getenv(load_dotenv(env_endpoint, dotenv_file), DefaultEndpoint)

\* no stream is open: the attempt that owned the last stream is over
AttemptOver == pc \in {"attempt", "backoff", "returned", "raised"}

\* ---- C1 ----
\* C1: the pongs yielded on a stream are the ids of the pings received on
\* it, one pong per ping, in receipt order; and no ping received while the
\* stream is open is left unanswered: as long as the session stays open,
\* the k-th ping received on it is eventually answered.  The code breaks the
\* second part: the iterator ends when building a pong raises (lines
\* 226-228) and when it sees the shutdown event (line 209), and the session
\* stays open with pings that are never answered.
C1_AllPingsAnswered ==
    /\ [](IsPrefix(PongIds, pingsRecv))
    /\ \A k \in 1..MaxPings :
        (pc = "session" /\ Len(pingsRecv) >= k)
            ~> (Len(PongIds) >= k \/ pc # "session")

\* ---- C2 ----
\* C2: run_with_reconnect ends (returns or raises) only when the shutdown
\* event is set.
C2_ReturnsOnlyOnShutdown == pc \in {"returned", "raised"} => shutdown

\* ---- C3 ----
\* C3: once the shutdown event is set during a session, run_with_reconnect
\* eventually returns, whatever the server does or does not do.
C3_ShutdownEventuallyReturns == (shutdown /\ pc = "session") ~> (pc = "returned")

\* ---- C4 ----
\* C4: after the shutdown event is set no backoff wait starts, no transport
\* handle is acquired and no error leaves run_with_reconnect.
C4_NoRetryAfterShutdown ==
    [][shutdown => /\ (pc' = "backoff" => pc = "backoff")
                   /\ openHandles' <= openHandles
                   /\ pc' # "raised"]_vars

\* ---- C5 ----
\* C5: the channel of an attempt is closed at most once, and once the attempt
\* is over a channel that was opened has been closed exactly once and no
\* channel is open.
C5_ClosedExactlyOnce ==
    /\ closeCalls <= 1
    /\ channel = "open" => closeCalls = 0
    /\ channel = "closed" => closeCalls = 1
    /\ AttemptOver => (openHandles = 0 /\ channel # "open")

C5_Witness ==
    /\ pc = "backoff"
    /\ endCause = "RpcError"
    /\ channel = "closed"
    /\ closeCalls = 1

\* ---- C6 ----
\* C6: a message with no variant set, received while the shutdown event is
\* unset, ends the session without touching the event and takes the
\* reconnect path: the next attempt begins, and unless a signal arrives
\* meanwhile it connects or fails into the next backoff wait.
C6_NoneVariantReconnects ==
    /\ [][(pc = "session" /\ ~shutdown /\ lastHandled # "None" /\ lastHandled' = "None")
            => (pc' = "sleep1" /\ endCause' = "stop" /\ ~shutdown')]_vars
    /\ \A n \in 1..MaxTries :
        (pc = "sleep1" /\ endCause = "stop" /\ tries = n /\ ~shutdown)
            ~> (tries = n + 1 /\ pc = "attempt")
    /\ \A n \in 1..(MaxTries - 1) :
        (pc = "sleep1" /\ endCause = "stop" /\ tries = n /\ ~shutdown)
            ~> (shutdown \/ (tries = n + 1 /\ pc \in {"session", "backoff"}))

C6_Witness ==
    /\ pc = "attempt"
    /\ tries >= 2
    /\ endCause = "stop"
    /\ lastHandled = "None"
    /\ ~shutdown

\* ---- C7 ----
\* C7: a clean end of the inbound stream while the shutdown event is unset
\* does not end run_with_reconnect: run returns, the fixed delay runs, the
\* failure raised after it sends the retry loop into a backoff wait, the
\* next attempt begins, and unless a signal arrives meanwhile it connects
\* or fails into the next backoff wait.
C7_CleanCloseReconnects ==
    /\ [][(pc = "session" /\ pc' # "session" /\ endCause' = "eof" /\ ~shutdown)
            => (pc' = "sleep1" /\ timer' = 1 /\ runResult' = "returned")]_vars
    /\ [][(pc = "sleep1" /\ pc' # "sleep1")
            => (pc' = "backoff" /\ channel' = "closed")]_vars
    /\ \A n \in 1..MaxTries :
        (pc = "sleep1" /\ endCause = "eof" /\ tries = n /\ ~shutdown)
            ~> (tries = n + 1 /\ pc = "attempt")
    /\ \A n \in 1..(MaxTries - 1) :
        (pc = "sleep1" /\ endCause = "eof" /\ tries = n /\ ~shutdown)
            ~> (shutdown \/ (tries = n + 1 /\ pc \in {"session", "backoff"}))

C7_Witness ==
    /\ pc = "attempt"
    /\ tries >= 2
    /\ endCause = "eof"
    /\ runResult = "returned"
    /\ ~shutdown

\* ---- C8 ----
\* C8 as stated: the backoff delays are non-decreasing and the retry loop
\* never gives up.
C8_DelaysNonDecreasing ==
    /\ \A i \in 1..(Len(delays) - 1) : delays[i] <= delays[i + 1]
    /\ pc # "raised"

\* C8 amended: the k-th backoff delay is drawn between 0 and 2^(k-1), so only
\* the upper limits of the delays are non-decreasing; every failed attempt
\* gets its delay and the retry loop never gives up.
C8_DelaysWithinExpo ==
    /\ \A i \in 1..Len(delays) : delays[i] >= 0 /\ delays[i] <= Pow(2, i - 1)
    /\ Len(delays) = IF pc = "backoff" THEN tries ELSE tries - 1
    /\ pc # "raised"

C8_Witness ==
    /\ pc = "backoff"
    /\ Len(delays) = 2
    /\ delays[1] > delays[2]

\* ---- C9 ----
\* C9: the attempt counter and the exponent of the backoff never go back:
\* every step leaves them or raises them, and the exponent always equals the
\* number of failures since run_with_reconnect was called.
C9_BackoffContinuous ==
    /\ [][tries' >= tries /\ expoN' >= expoN]_vars
    /\ [](expoN = IF pc = "backoff" THEN tries ELSE tries - 1)
    /\ [](pc = "backoff" => timer <= Pow(2, tries - 1))

C9_Witness ==
    /\ pc = "backoff"
    /\ endCause = "eof"
    /\ tries = 2
    /\ timer = 2

\* ---- C10 ----
\* C10: when the stream raises inside run, run raises the same error if the
\* shutdown event is unset and returns normally if it is set.
C10_RunErrorPolicy ==
    [][(pc = "session" /\ pc' # "session" /\ endCause' \in ErrorKinds)
        => /\ ~shutdown => runResult' = endCause'
           /\ shutdown => runResult' = "returned"]_vars

C10_Witness ==
    /\ endCause = "RpcError"
    /\ runResult = "RpcError"
    /\ pc = "backoff"
    /\ ~shutdown

\* ---- C11 ----
\* C11: the dispatcher stops the session for the absent variant and for no
\* other: a step that hands it a slot, account, transaction, block, pong or
\* unlisted variant leaves the session open, a step that hands it the absent
\* variant ends the inbound loop with a dispatcher stop.  The code breaks it:
\* an update whose field read raises (every block update whose blockhash is
\* a str, line 109) is reported as a stop.
C11_OnlyNoneStops ==
    [][(pc = "session" /\ lastHandled' # lastHandled)
        => /\ lastHandled' \in {"slot", "account", "transaction", "block", "pong", "unknown"}
                => (pc' = "session" /\ endCause' = "-")
           /\ lastHandled' = "None" => (pc' # "session" /\ endCause' = "stop")
           /\ lastHandled' \in Variants \ {"ping"}]_vars

\* ---- C12 ----
\* a string carries a port when it ends in a colon followed by digits
Digits == {"3", "4"}
HasPort(str) ==
    \E i \in 1..(Len(str) - 1) :
        /\ str[i] = ":"
        /\ \A j \in (i + 1)..Len(str) : str[j] \in Digits

\* C12: for a non-empty configured endpoint, config.endpoint is the input
\* when the input carries a port and the input followed by ':443' when it
\* does not.  The code breaks it: lines 48-49 look for a colon, not for a
\* port, so an input with a colon and no port is left without a port.
C12_PortDefaulted ==
    (pc = "attempt" /\ ConfiguredEndpoint # <<>>)
        => endpoint = IF HasPort(ConfiguredEndpoint)
                      THEN ConfiguredEndpoint
                      ELSE ConfiguredEndpoint \o PortSuffix

\* ---- C13 ----
\* C13: with an empty configured endpoint (GEYSER_ENDPOINT set to the empty
\* string in the environment, or unset there and empty in the .env file)
\* main goes from its start straight to exit status 1: no channel is ever
\* created, no signal handler can have set the shutdown event, the retry
\* loop has drawn no delay and no stream was opened; and exit status 1 at
\* startup has no other cause.
C13_EmptyEndpointFailsFast ==
    /\ [](ConfiguredEndpoint = <<>>
            => /\ pc \in {"start", "exit1"}
               /\ channel = "none" /\ openHandles = 0
               /\ ~shutdown
               /\ expoN = 0 /\ delays = <<>>
               /\ pumpPc = "done" /\ outbound = <<>>)
    /\ [][(pc = "start" /\ ConfiguredEndpoint = <<>>)
            => (pc' = "exit1" /\ ExitStatus(pc') = 1)]_vars
    /\ [](pc = "exit1" => ConfiguredEndpoint = <<>>)

C13_Witness ==
    /\ pc = "exit1"
    /\ dotenv_file = EnvSet(<<>>)
    /\ env_endpoint = EnvSet(<<>>)
    /\ endpoint = <<>>

\* ---- C14 ----
\* C14: on every stream the iterator yields the subscription request
\* exactly once, as its first item, and every later item is a pong: the
\* stream that was just opened has yielded nothing, its next step yields the
\* request, no session ends before the request was yielded, what was
\* yielded on a stream stays, and no second request follows.
C14_SubscribeFirstOnce ==
    /\ [](/\ pumpPc = "init" => (outbound = <<>> /\ pc = "session")
          /\ pumpPc \in {"check", "wait", "got", "expired", "failed"}
                => outbound # <<>>
          /\ outbound # <<>> => outbound[1] = SubscribeItem
          /\ \A i \in 2..Len(outbound) : outbound[i].kind = "pong")
    /\ [][(pc = "session" /\ pc' # "session")
            => (outbound # <<>> /\ outbound[1] = SubscribeItem)]_vars
    /\ [][(pc' = "session" /\ pc # "session")
            => (pumpPc' = "init" /\ outbound' = <<>>)]_vars
    /\ [][(pc # "attempt" \/ pc' = "attempt") => IsPrefix(outbound, outbound')]_vars
    /\ (pc = "session" /\ pumpPc = "init")
            ~> (pc = "session" /\ outbound = <<SubscribeItem>>)

C14_Witness ==
    /\ pc = "session"
    /\ Len(outbound) = 3
    /\ outbound[1].kind = "subscribe"
    /\ outbound[2].kind = "pong"
    /\ outbound[3].kind = "pong"

\* ---- C15 ----
\* C15: no request_iterator is still running once the attempt of its
\* session is over: none is left polling from an earlier attempt, and none
\* polls after its attempt with the shutdown event unset.
C15_NoPumpOutlivesAttempt ==
    /\ leaked = 0
    /\ (AttemptOver /\ ~shutdown) => ~PumpPolling

\* ---- C16 ----
\* C16: the dispatcher is never handed a ping; the step that receives a ping
\* appends its id to the queue and leaves the inbound loop running, and the
\* queue is never full, so the put never suspends.
C16_PingQueuedNotDispatched ==
    /\ [](lastHandled # "ping")
    /\ []~QueueFull(ping_queue)
    /\ [][(pc = "session" /\ pingsRecv' # pingsRecv)
            => /\ \E ping_id \in PingIds :
                    /\ ping_queue' = Append(ping_queue, ping_id)
                    /\ pingsRecv' = Append(pingsRecv, ping_id)
               /\ pc' = "session"
               /\ lastHandled' = lastHandled
               /\ endCause' = endCause]_vars

C16_Witness ==
    /\ pc = "session"
    /\ Len(ping_queue) = 2
    /\ lastHandled = "slot"

\* ---- C17 ----
\* C17: while the shutdown event is set, no step of a session queues a ping
\* or hands a message to the dispatcher, and the message that arrives ends
\* the inbound loop: run returns and run_with_reconnect with it.
C17_NothingHandledAfterShutdown ==
    /\ [][(shutdown /\ pc = "session")
            => /\ pingsRecv' = pingsRecv
               /\ lastHandled' = lastHandled
               /\ Len(ping_queue') <= Len(ping_queue)]_vars
    /\ [][(shutdown /\ pc = "session" /\ endCause' = "shutdown")
            => (pc' = "returned" /\ runResult' = "returned")]_vars

C17_Witness ==
    /\ endCause = "shutdown"
    /\ pc = "returned"
    /\ ping_queue # <<>>

\* ---- C18 ----
\* C18: the shutdown event is unset when main starts, no step unsets it, and
\* every step that changes it is a step of the signal handler.
C18_ShutdownMonotonic ==
    /\ [](pc = "start" => ~shutdown)
    /\ [][shutdown => shutdown']_vars
    /\ [][shutdown' # shutdown => Signal]_vars

C18_Witness ==
    /\ shutdown
    /\ pc = "backoff"
    /\ tries >= 2

\* ---- C19 ----
\* C19: at most one channel is open, exactly while a session or its fixed
\* delay is in progress; a channel is opened only when none is open, and
\* none is open during a backoff wait or at the start of an attempt.
C19_OneHandleAtATime ==
    /\ [](openHandles <= 1)
    /\ [](openHandles = 1 <=> pc \in {"session", "sleep1"})
    /\ [](pc \in {"backoff", "attempt"} => channel # "open")
    /\ [][openHandles' > openHandles => (openHandles = 0 /\ pc = "attempt")]_vars

C19_Witness ==
    /\ pc = "session"
    /\ tries = 2
    /\ channel = "open"
    /\ openHandles = 1

\* ---- C20 ----
\* C20: the pongs yielded on a stream are never more than the pings received
\* on it and each carries the id of one of them; the same goes for the pong
\* the iterator is about to yield for the id it holds, whenever it yields
\* it, also after the channel was closed; a new session starts with an empty
\* queue, no id held and nothing yielded.
C20_PongsFromOwnStream ==
    /\ [](Len(PongIds) <= Len(pingsRecv))
    /\ [](\A i \in 1..Len(PongIds) :
            \E j \in 1..Len(pingsRecv) : pingsRecv[j] = PongIds[i])
    /\ [](pumpPc = "got"
            => /\ Len(PongIds) + 1 <= Len(pingsRecv)
               /\ \E j \in 1..Len(pingsRecv) : pingsRecv[j] = pump_ping_id)
    /\ [](pumpPc # "got" => pump_ping_id = NoPingId)
    /\ [][(pc = "attempt" /\ pc' = "session")
            => /\ ping_queue' = <<>> /\ outbound' = <<>> /\ pingsRecv' = <<>>
               /\ pump_ping_id' = NoPingId]_vars

C20_Witness ==
    /\ pc = "backoff"
    /\ tries >= 2
    /\ channel = "closed"
    /\ endCause = "Exception"
    /\ Len(PongIds) = 1
    /\ ping_queue = <<>>

====
